---- MODULE Spec2Model ----
(***************************************************************************)
(* Model of the file-ingestion tool of pipe_tasks                          *)
(* (python/lsst/pipe/tasks/ingest.py): IngestTask.run over a batch of      *)
(* files, RegisterTask's registry operations on the working copy, and      *)
(* RegistryContext's copy / modify / publish of the registry file.         *)
(*                                                                         *)
(* The registry schema is RegisterConfig restricted to three columns       *)
(* (visit:int, ccd:int, filter:text), unique = [visit, ccd],               *)
(* visit = [visit, filter].  ParseConfig.extnames is empty (its default),  *)
(* so every readable file yields one property mapping.                     *)
(***************************************************************************)
EXTENDS Integers, Sequences, FiniteSets, TLC

\* ------------------------------------------------------------------ bounds
\* Longest list of patterns on the command line (args.files).
MaxPatterns == 2
\* Number of times IngestTask.run is invoked in one behaviour.
MaxRuns == 2
\* Largest number of free blocks on the volume (os.statvfs); a data file and
\* a registry with its tables each take one block, an empty file none.
MaxAvail == 1
\* Longest batch ingested into the registry before the behaviour starts.
MaxPriorFiles == 1

VARIABLES
  config,        \* IngestConfig / RegisterConfig: [ignore, allowError, clobber]
  avail,         \* free blocks on the volume (f_bavail * f_frsize)
  fs,            \* data files: [inputs, repo, dirs]
  live,          \* the file at registryName (the live registry)
  updates,       \* the temporary files, by the run that created them
  pc,            \* position of IngestTask.run
  runs,          \* number of runs started
  args,          \* parsed command line of the current run
  filenameList,  \* run's expanded file list
  idx,           \* number of files of filenameList processed
  conn,          \* the open connection's view of the working copy
  exc,           \* the exception in flight or raised ("none" if none)
  log,           \* warnings logged by the current run
  pre,           \* history: the live registry when the current run began
  submitted,     \* history: property mappings passed to addRow in this run
  errIdx,        \* history: position of the first file whose extraction or transport failed
  last,          \* history: outcome of the latest runFile call
  prev,          \* history: how the previous run ended ("idle" if there was none)
  refreshed,     \* history: calls of addVisits in the current run
  other          \* a second IngestTask.run on the same registry, in another process

vars ==
  <<config, avail, fs, live, updates, pc, runs, args, filenameList, idx, conn,
    exc, log, pre, submitted, errIdx, last, prev, refreshed, other>>

\* ------------------------------------------------------ configuration
\* RegisterConfig.columns, .unique, .visit
ConfigColumns == {"visit", "ccd", "filter"}
ConfigUnique == {"visit", "ccd"}
ConfigVisit == {"visit", "filter"}
\* RegisterConfig.table and the derived visit table's name
TableName == "raw"
VisitTableName == "raw_visit"
\* choices of --mode
Modes == {"move", "copy", "link", "skip"}

\* ------------------------------------------------------ the input files
\* The files that may be named on the command line and what the metadata
\* reader returns for each; "d" is not a readable image (readMetadata raises).
Files == {"a", "b", "c", "d", "e"}

Readable(f) == f \in {"a", "b", "c", "e"}

Header(f) ==
  CASE f = "a" -> [visit |-> 100, ccd |-> 1, filter |-> "r"]
    [] f = "b" -> [visit |-> 100, ccd |-> 2, filter |-> "r"]
    [] f = "c" -> [visit |-> 100, ccd |-> 2, filter |-> "g"]
    [] f = "e" -> [visit |-> 101, ccd |-> 1, filter |-> "g"]

\* Command-line patterns: a literal name, or a glob matching several names.
Patterns == {"a", "[cd]", "[be]"}

PatternMatches(p) ==
  CASE p = "[cd]" -> <<"c", "d">>
    [] p = "[be]" -> <<"b", "e">>
    [] OTHER -> <<p>>

\* glob.glob: the names the pattern matches that exist on disk.
glob(globPattern, present) ==
  SelectSeq(PatternMatches(globPattern), LAMBDA f : f \in present)

\* fnmatch.fnmatch on a base name
fnmatch(filename, pat) ==
  \E i \in 1..Len(PatternMatches(pat)) : PatternMatches(pat)[i] = filename

Project(r, cols) == [c \in cols |-> r[c]]

\* ------------------------------------------------------ registry files
\* A file at a registry path: the tables it holds, their rows, the declared
\* unique constraints, and its permission bits.
NoFile ==
  [exists |-> FALSE, tables |-> {}, file |-> <<>>, visit |-> <<>>,
   unique |-> {}, vunique |-> {}, mode |-> "none"]

\* tempfile.NamedTemporaryFile(delete=False): an empty file, owner-only.
EmptyTemp == [NoFile EXCEPT !.exists = TRUE, !.mode = "0600"]

\* os.stat(path).st_size in blocks
st_size(f) == IF f.exists /\ f.tables # {} THEN 1 ELSE 0

\* os.stat(infile).st_size of an input data file, in blocks
InputSize(infile) == 1

\* assertCanCopy with the comparison turned around.
assertCanCopy_reversed(req) == ~(req < avail)

\* assertCanCopy, given st_size of fromPath: TRUE when the copy may proceed,
\* FALSE when it raises RuntimeError.
assertCanCopy(req) == ~(avail < req)

\* ------------------------------------------------------ RegisterTask
\* createTable that drops and recreates the tables whether or not they exist.
createTable_alwaysDrop(db, forceCreateTables) ==
  [db EXCEPT !.tables = {TableName, VisitTableName},
             !.file = <<>>,
             !.visit = <<>>,
             !.unique = ConfigUnique,
             !.vunique = ConfigVisit \cap ConfigUnique]

\* createTable that leaves the unique clause out of the file table.
createTable_noUnique(db, forceCreateTables) ==
  IF TableName \in db.tables /\ ~forceCreateTables
  THEN db
  ELSE [db EXCEPT !.tables = {TableName, VisitTableName},
                  !.file = <<>>,
                  !.visit = <<>>,
                  !.unique = {},
                  !.vunique = ConfigVisit \cap ConfigUnique]

\* RegisterTask.createTable on the working copy.
createTable(db, forceCreateTables) ==
  IF TableName \in db.tables /\ ~forceCreateTables
  THEN db
  ELSE [db EXCEPT !.tables = {TableName, VisitTableName},
                  !.file = <<>>,
                  !.visit = <<>>,
                  !.unique = ConfigUnique,
                  !.vunique = ConfigVisit \cap ConfigUnique]

\* A comparison on cols that matches no row (values bound with a type the
\* columns never equal).
Matching_none(table, info, cols) == {}

\* Rows of a table that agree with info on the columns cols.
Matching(table, info, cols) ==
  {i \in 1..Len(table) : Project(table[i], cols) = Project(info, cols)}

\* check without the test of config.ignore.
checkOn_noIgnoreTest(db, info, ignore, unique) ==
  IF unique = {}
  THEN FALSE
  ELSE Cardinality(Matching(db.file, info, unique)) > 0

\* The body of RegisterTask.check, given config.ignore and config.unique.
checkOn(db, info, ignore, unique) ==
  IF ignore \/ unique = {}
  THEN FALSE
  ELSE Cardinality(Matching(db.file, info, unique)) > 0

\* RegisterTask.check
check(db, info) == checkOn(db, info, config.ignore, ConfigUnique)

\* addRow without the WHERE NOT EXISTS clause of duplicate-tolerance.
addRow_noIgnore(db, info, dryrun) ==
  LET row == [id |-> Len(db.file) + 1, visit |-> info.visit,
              ccd |-> info.ccd, filter |-> info.filter]
  IN IF dryrun
     THEN [conn |-> db, raised |-> FALSE]
     ELSE IF db.unique # {} /\ Matching(db.file, info, db.unique) # {}
          THEN [conn |-> db, raised |-> TRUE]
          ELSE [conn |-> [db EXCEPT !.file = Append(@, row)], raised |-> FALSE]

\* RegisterTask.addRow: [conn, raised]; raised is sqlite3.IntegrityError from
\* the table's unique constraint, which leaves the table as it was.
addRow(db, info, dryrun) ==
  LET row == [id |-> Len(db.file) + 1, visit |-> info.visit,
              ccd |-> info.ccd, filter |-> info.filter]
      selected == IF config.ignore
                  THEN Matching(db.file, info, ConfigUnique) = {}
                  ELSE TRUE
  IN IF dryrun \/ ~selected
     THEN [conn |-> db, raised |-> FALSE]
     ELSE IF db.unique # {} /\ Matching(db.file, info, db.unique) # {}
          THEN [conn |-> db, raised |-> TRUE]
          ELSE [conn |-> [db EXCEPT !.file = Append(@, row)], raised |-> FALSE]

\* SELECT DISTINCT: each value once, in order of first appearance.
RECURSIVE Distinct(_)
Distinct(s) ==
  IF s = <<>> THEN <<>>
  ELSE <<Head(s)>> \o SelectSeq(Distinct(Tail(s)), LAMBDA x : x # Head(s))

\* One INSERT statement of several rows under a unique constraint: all rows
\* are inserted, or the statement fails and inserts none.
RECURSIVE InsertAll(_, _, _)
InsertAll(table, rows, uniq) ==
  IF rows = <<>> THEN [ok |-> TRUE, table |-> table]
  ELSE IF uniq # {} /\ Matching(table, Head(rows), uniq) # {}
       THEN [ok |-> FALSE, table |-> table]
       ELSE InsertAll(Append(table, Head(rows)), Tail(rows), uniq)

\* RegisterTask.addVisits: [conn, raised]
addVisits(db, dryrun) ==
  LET vv1 == SelectSeq(db.file,
               LAMBDA r : ~\E j \in 1..Len(db.visit) : r.visit = db.visit[j].visit)
      rows == Distinct([i \in 1..Len(vv1) |-> Project(vv1[i], ConfigVisit)])
      ins == InsertAll(db.visit, rows, db.vunique)
  IN IF dryrun THEN [conn |-> db, raised |-> FALSE]
     \* sqlite3.OperationalError: no such table
     ELSE IF VisitTableName \notin db.tables THEN [conn |-> db, raised |-> TRUE]
     ELSE IF ins.ok
          THEN [conn |-> [db EXCEPT !.visit = ins.table], raised |-> FALSE]
          ELSE [conn |-> db, raised |-> TRUE]

\* ------------------------------------------------------ IngestTask
\* IngestTask.expandFiles
RECURSIVE expandFiles(_, _)
expandFiles(fileNameList, present) ==
  IF fileNameList = <<>> THEN <<>>
  ELSE LET files == glob(Head(fileNameList), present)
       IN IF files = <<>>
          THEN expandFiles(Tail(fileNameList), present)
          ELSE files \o expandFiles(Tail(fileNameList), present)

\* The warnings expandFiles logs: one per pattern that matches no file.
expandWarnings(fileNameList, present) ==
  {[msg |-> "doesn't match any file", file |-> fileNameList[i]] :
     i \in {j \in 1..Len(fileNameList) : glob(fileNameList[j], present) = <<>>}}

\* IngestTask.isBadFile
isBadFile(filename, badFileList) ==
  \E i \in 1..Len(badFileList) : fnmatch(filename, badFileList[i])

\* IngestTask.isBadId
isBadId(info, badIdList) ==
  \E i \in 1..Len(badIdList) :
    \A key \in DOMAIN badIdList[i] : info[key] = badIdList[i][key]

\* ParseTask.getDestination: the repository path of a data identifier.
getDestination(info) == Project(info, ConfigUnique)

\* os.path.dirname of a repository path
dirname(outfile) == outfile.visit

Destinations == {getDestination(Header(f)) : f \in {g \in Files : Readable(g)}}

NoEntry == [kind |-> "none", of |-> "none"]

\* ingest that transports the file in a dry run too.
ingest_ignoresDryrun(infile, outfile, mode, dryrun, f) ==
  LET outdir == dirname(outfile)
      made == [f EXCEPT !.dirs = @ \cup {outdir}]
      cleared == [made EXCEPT !.repo[outfile] = NoEntry]
      failed(g) == [ok |-> FALSE, raised |-> ~config.allowError, fs |-> g]
      done(g) == [ok |-> TRUE, raised |-> FALSE, fs |-> g]
  IN IF mode = "skip" THEN done(f)
     ELSE IF made.repo[outfile].kind # "none" /\ ~config.clobber THEN failed(made)
     ELSE IF mode = "copy"
          THEN IF ~assertCanCopy(InputSize(infile)) THEN failed(cleared)
               ELSE done([cleared EXCEPT !.repo[outfile] = [kind |-> "file", of |-> infile]])
     ELSE IF mode = "link"
          THEN done([cleared EXCEPT !.repo[outfile] = [kind |-> "link", of |-> infile]])
     ELSE IF mode = "move"
          THEN IF ~assertCanCopy(InputSize(infile)) THEN failed(cleared)
               ELSE done([cleared EXCEPT !.repo[outfile] = [kind |-> "file", of |-> infile],
                                         !.inputs = @ \ {infile}])
     ELSE failed(cleared)

\* ingest that overwrites an existing destination whatever config.clobber says.
ingest_alwaysClobber(infile, outfile, mode, dryrun, f) ==
  LET outdir == dirname(outfile)
      made == [f EXCEPT !.dirs = @ \cup {outdir}]
      cleared == [made EXCEPT !.repo[outfile] = NoEntry]
      failed(g) == [ok |-> FALSE, raised |-> ~config.allowError, fs |-> g]
      done(g) == [ok |-> TRUE, raised |-> FALSE, fs |-> g]
  IN IF mode = "skip" THEN done(f)
     ELSE IF dryrun THEN done(f)
     ELSE IF mode = "copy"
          THEN IF ~assertCanCopy(InputSize(infile)) THEN failed(cleared)
               ELSE done([cleared EXCEPT !.repo[outfile] = [kind |-> "file", of |-> infile]])
     ELSE IF mode = "link"
          THEN done([cleared EXCEPT !.repo[outfile] = [kind |-> "link", of |-> infile]])
     ELSE IF mode = "move"
          THEN IF ~assertCanCopy(InputSize(infile)) THEN failed(cleared)
               ELSE done([cleared EXCEPT !.repo[outfile] = [kind |-> "file", of |-> infile],
                                         !.inputs = @ \ {infile}])
     ELSE failed(cleared)

\* IngestTask.ingest: [ok, raised, fs]; ok is the returned boolean, raised
\* tells that the exception was re-raised.
ingest(infile, outfile, mode, dryrun, f) ==
  LET outdir == dirname(outfile)
      made == [f EXCEPT !.dirs = @ \cup {outdir}]
      cleared == [made EXCEPT !.repo[outfile] = NoEntry]
      failed(g) == [ok |-> FALSE, raised |-> ~config.allowError, fs |-> g]
      done(g) == [ok |-> TRUE, raised |-> FALSE, fs |-> g]
  IN IF mode = "skip" THEN done(f)
     ELSE IF dryrun THEN done(f)
     ELSE IF made.repo[outfile].kind # "none" /\ ~config.clobber THEN failed(made)
     ELSE IF mode = "copy"
          THEN IF ~assertCanCopy(InputSize(infile)) THEN failed(cleared)
               ELSE done([cleared EXCEPT !.repo[outfile] = [kind |-> "file", of |-> infile]])
     ELSE IF mode = "link"
          THEN done([cleared EXCEPT !.repo[outfile] = [kind |-> "link", of |-> infile]])
     ELSE IF mode = "move"
          THEN IF ~assertCanCopy(InputSize(infile)) THEN failed(cleared)
               ELSE done([cleared EXCEPT !.repo[outfile] = [kind |-> "file", of |-> infile],
                                         !.inputs = @ \ {infile}])
     ELSE failed(cleared)

\* IngestTask.runFile: [stage, none, ret, raised, fs, warn].  stage names where
\* the call ended, none tells that it returned None, ret is hduInfoList,
\* raised tells that an exception left runFile.
runFile(infile, registry, a, f) ==
  LET out(stage, none, ret, raised, g, warn) ==
        [stage |-> stage, none |-> none, ret |-> ret, raised |-> raised,
         fs |-> g, warn |-> warn]
  IN IF isBadFile(infile, a.badFile)
     THEN out("badFile", TRUE, <<>>, FALSE, f, {})
     ELSE IF ~(infile \in f.inputs /\ Readable(infile))
     THEN IF ~config.allowError
          THEN out("parse", FALSE, <<>>, TRUE, f, {})
          ELSE out("parse", TRUE, <<>>, FALSE, f,
                   {[msg |-> "Error parsing", file |-> infile]})
     ELSE
       LET fileInfo == Header(infile)
           hduInfoList == <<fileInfo>>
           found == ~a.dryrun /\ check(registry, fileInfo)
           already == IF found
                      THEN {[msg |-> "already ingested", file |-> infile]}
                      ELSE {}
           outfile == getDestination(fileInfo)
           t == ingest(infile, outfile, a.mode, a.dryrun, f)
           twarn == IF t.ok THEN already
                    ELSE already \cup {[msg |-> "Failed to transport", file |-> infile]}
       IN IF isBadId(fileInfo, a.badId)
          THEN out("badId", TRUE, <<>>, FALSE, f, {})
          ELSE IF found /\ a.ignoreIngested
          THEN out("ingested", TRUE, <<>>, FALSE, f, {})
          ELSE IF t.raised THEN out("transport", FALSE, <<>>, TRUE, t.fs, twarn)
          ELSE IF ~t.ok THEN out("transport", TRUE, <<>>, FALSE, t.fs, twarn)
          ELSE out("ok", FALSE, hduInfoList, FALSE, t.fs, twarn)

\* The loop of IngestTask.run over hduInfoList: addRow for each mapping until
\* one raises.  [conn, raised, passed]; passed are the mappings given to addRow.
RECURSIVE addRows(_, _, _)
addRows(db, hduInfoList, dryrun) ==
  IF hduInfoList = <<>> THEN [conn |-> db, raised |-> FALSE, passed |-> <<>>]
  ELSE LET r == addRow(db, Head(hduInfoList), dryrun)
       IN IF r.raised
          THEN [conn |-> r.conn, raised |-> TRUE, passed |-> <<Head(hduInfoList)>>]
          ELSE LET rest == addRows(r.conn, Tail(hduInfoList), dryrun)
               IN [rest EXCEPT !.passed = <<Head(hduInfoList)>> \o @]

\* ------------------------------------------------------ RegistryContext
\* RegistryContext.__init__: [raised, update, conn]; update is the temporary
\* file it leaves on disk, conn the connection's view of it.
RegistryContextInit(registry, forceCreateTables) ==
  LET updateFile == EmptyTemp
      \* os.chmod to the registry's mode, then shutil.copyfile of its content
      copied == IF registry.exists THEN registry ELSE updateFile
      created == createTable(copied, forceCreateTables)
      final == [created EXCEPT !.mode = "permissions"]
  IN IF registry.exists /\ ~assertCanCopy(st_size(registry))
     THEN [raised |-> TRUE, update |-> updateFile, conn |-> NoFile]
     ELSE [raised |-> FALSE, update |-> final, conn |-> final]

\* ------------------------------------------------------ initial state
\* The registry a completed earlier run (--mode skip) over batch leaves at
\* the live path; no registry if that run raised.
RECURSIVE PriorRows(_, _)
PriorRows(db, batch) ==
  IF batch = <<>> THEN [conn |-> db, raised |-> FALSE]
  ELSE LET r == addRow(db, Header(Head(batch)), FALSE)
       IN IF r.raised THEN r ELSE PriorRows(r.conn, Tail(batch))

PriorRegistry(batch) ==
  LET opened == RegistryContextInit(NoFile, FALSE)
      filled == PriorRows(opened.conn, batch)
      visited == addVisits(filled.conn, FALSE)
  IN IF filled.raised \/ visited.raised THEN NoFile ELSE visited.conn

\* Files ingested before the behaviour starts.
PriorFiles == {"a"}

PriorBatches ==
  UNION {[1..n -> PriorFiles] : n \in 1..MaxPriorFiles}

\* The command lines.
PatternLists == UNION {[1..n -> Patterns] : n \in 1..MaxPatterns}

Exclusions ==
  {[badFile |-> <<>>, badId |-> <<>>],
   [badFile |-> <<"c">>, badId |-> <<[visit |-> 101]>>]}

ArgSpace ==
  {[files |-> fl, dryrun |-> d, mode |-> m, create |-> c, ignoreIngested |-> g,
    badFile |-> x.badFile, badId |-> x.badId] :
     fl \in PatternLists, d \in BOOLEAN, m \in Modes, c \in BOOLEAN,
     g \in BOOLEAN, x \in Exclusions}

NoArgs ==
  [files |-> <<>>, dryrun |-> FALSE, mode |-> "skip", create |-> FALSE,
   ignoreIngested |-> FALSE, badFile |-> <<>>, badId |-> <<>>]

NoOutcome == [file |-> "none", stage |-> "none"]

\* The second process before it runs.  Its fields are those of a run: pc,
\* args, filenameList, idx, conn, exc, log, submitted, and update, its
\* temporary file; overlap and renamedLast are history.
NoOther ==
  [pc |-> "idle", args |-> NoArgs, filenameList |-> <<>>, idx |-> 0,
   conn |-> NoFile, exc |-> "none", log |-> {}, submitted |-> <<>>,
   update |-> NoFile, overlap |-> FALSE, renamedLast |-> FALSE]

Init ==
  /\ config \in [ignore : BOOLEAN, allowError : BOOLEAN, clobber : BOOLEAN]
  /\ avail \in 0..MaxAvail
  /\ fs = [inputs |-> Files, repo |-> [d \in Destinations |-> NoEntry], dirs |-> {}]
  /\ live \in {NoFile} \cup {PriorRegistry(b) : b \in PriorBatches}
  /\ updates = [r \in 1..MaxRuns |-> NoFile]
  /\ pc = "idle"
  /\ runs = 0
  /\ args = NoArgs
  /\ filenameList = <<>>
  /\ idx = 0
  /\ conn = NoFile
  /\ exc = "none"
  /\ log = {}
  /\ pre = live
  /\ submitted = <<>>
  /\ errIdx = 0
  /\ last = NoOutcome
  /\ prev = "idle"
  /\ refreshed = 0
  /\ other = NoOther

\* Registry files that hold one of the two tables only (written by other
\* tools, or by an interrupted createTable).
FileTableOnly ==
  [exists |-> TRUE, tables |-> {TableName},
   file |-> <<[id |-> 1, visit |-> 100, ccd |-> 1, filter |-> "r"]>>,
   visit |-> <<>>, unique |-> ConfigUnique, vunique |-> {},
   mode |-> "permissions"]

VisitTableOnly ==
  [exists |-> TRUE, tables |-> {VisitTableName},
   file |-> <<>>, visit |-> <<[visit |-> 100, filter |-> "r"]>>,
   unique |-> {}, vunique |-> ConfigVisit \cap ConfigUnique,
   mode |-> "permissions"]

\* The initial states in which the live registry holds one table only.
InitPartial ==
  /\ config \in [ignore : BOOLEAN, allowError : BOOLEAN, clobber : BOOLEAN]
  /\ avail \in 0..MaxAvail
  /\ fs = [inputs |-> Files, repo |-> [d \in Destinations |-> NoEntry], dirs |-> {}]
  /\ live \in {FileTableOnly, VisitTableOnly}
  /\ updates = [r \in 1..MaxRuns |-> NoFile]
  /\ pc = "idle"
  /\ runs = 0
  /\ args = NoArgs
  /\ filenameList = <<>>
  /\ idx = 0
  /\ conn = NoFile
  /\ exc = "none"
  /\ log = {}
  /\ pre = live
  /\ submitted = <<>>
  /\ errIdx = 0
  /\ last = NoOutcome
  /\ prev = "idle"
  /\ refreshed = 0
  /\ other = NoOther

\* ------------------------------------------------------ IngestTask.run
\* The start of IngestTask.run: expandFiles and openRegistry.
Begin(a) ==
  /\ runs < MaxRuns
  /\ runs' = runs + 1
  /\ args' = a
  /\ filenameList' = expandFiles(a.files, fs.inputs)
  /\ log' = expandWarnings(a.files, fs.inputs)
  /\ idx' = 0
  /\ submitted' = <<>>
  /\ errIdx' = 0
  /\ last' = NoOutcome
  /\ pre' = live
  /\ prev' = pc
  /\ refreshed' = 0
  /\ IF a.dryrun
     THEN /\ conn' = NoFile
          /\ updates' = updates
          /\ exc' = "none"
          /\ pc' = "files"
     ELSE LET context == RegistryContextInit(live, a.create)
          IN /\ conn' = context.conn
             /\ updates' = [updates EXCEPT ![runs + 1] = context.update]
             /\ exc' = IF context.raised THEN "open" ELSE "none"
             /\ pc' = IF context.raised THEN "failed" ELSE "files"
  /\ UNCHANGED <<config, avail, fs, live, other>>

\* A first invocation, with any command line.
Start ==
  /\ pc = "idle"
  /\ \E a \in ArgSpace : Begin(a)

\* The same command line invoked again after the run has ended.
Rerun ==
  /\ pc \in {"done", "failed"}
  /\ Begin(args)

\* ProcessFile that undoes the file's transport when addRow raises.
ProcessFile_rollsBack ==
  /\ pc = "files"
  /\ idx < Len(filenameList)
  /\ LET infile == filenameList[idx + 1]
         r == runFile(infile, conn, args, fs)
         rows == addRows(conn, r.ret, args.dryrun)
         skipped == r.raised \/ r.none
     IN /\ idx' = idx + 1
        /\ fs' = IF ~skipped /\ rows.raised THEN fs ELSE r.fs
        /\ last' = [file |-> infile, stage |-> r.stage]
        /\ log' = log \cup r.warn \cup
                    (IF r.raised
                     THEN {[msg |-> "Failed to ingest file", file |-> infile]}
                     ELSE {})
        /\ errIdx' = IF errIdx = 0 /\ r.stage \in {"parse", "transport"}
                     THEN idx + 1 ELSE errIdx
        /\ conn' = IF skipped THEN conn ELSE rows.conn
        /\ submitted' = IF skipped THEN submitted ELSE submitted \o rows.passed
        /\ exc' = IF ~skipped /\ rows.raised THEN "addRow" ELSE exc
        /\ pc' = IF ~skipped /\ rows.raised THEN "exit" ELSE pc
  /\ UNCHANGED <<config, avail, live, updates, runs, args, filenameList, pre, prev, refreshed, other>>

\* One iteration of the loop over filenameList: runFile, then addRow for
\* each property mapping it returned.
ProcessFile ==
  /\ pc = "files"
  /\ idx < Len(filenameList)
  /\ LET infile == filenameList[idx + 1]
         r == runFile(infile, conn, args, fs)
         rows == addRows(conn, r.ret, args.dryrun)
         skipped == r.raised \/ r.none
     IN /\ idx' = idx + 1
        /\ fs' = r.fs
        /\ last' = [file |-> infile, stage |-> r.stage]
        /\ log' = log \cup r.warn \cup
                    (IF r.raised
                     THEN {[msg |-> "Failed to ingest file", file |-> infile]}
                     ELSE {})
        /\ errIdx' = IF errIdx = 0 /\ r.stage \in {"parse", "transport"}
                     THEN idx + 1 ELSE errIdx
        /\ conn' = IF skipped THEN conn ELSE rows.conn
        /\ submitted' = IF skipped THEN submitted ELSE submitted \o rows.passed
        /\ exc' = IF ~skipped /\ rows.raised THEN "addRow" ELSE exc
        /\ pc' = IF ~skipped /\ rows.raised THEN "exit" ELSE pc
  /\ UNCHANGED <<config, avail, live, updates, runs, args, filenameList, pre, prev, refreshed, other>>

\* The visit refresh moved into the loop: addVisits after each file as well.
AddVisits_inLoop ==
  /\ pc = "files"
  /\ refreshed <= idx
  /\ LET r == addVisits(conn, args.dryrun)
     IN /\ conn' = r.conn
        /\ exc' = IF r.raised THEN "addVisits" ELSE exc
        /\ pc' = IF r.raised \/ idx = Len(filenameList) THEN "exit" ELSE "files"
  /\ refreshed' = refreshed + 1
  /\ UNCHANGED <<config, avail, fs, live, updates, runs, args, filenameList,
                 idx, log, pre, submitted, errIdx, last, prev, other>>

\* The visit refresh that ends the open-registry scope.
AddVisits ==
  /\ pc = "files"
  /\ idx = Len(filenameList)
  /\ LET r == addVisits(conn, args.dryrun)
     IN /\ conn' = r.conn
        /\ exc' = IF r.raised THEN "addVisits" ELSE exc
  /\ pc' = "exit"
  /\ refreshed' = refreshed + 1
  /\ UNCHANGED <<config, avail, fs, live, updates, runs, args, filenameList,
                 idx, log, pre, submitted, errIdx, last, prev, other>>

\* Commit with the test of excType lost: publish goes ahead after an exception.
Commit_publishAlways ==
  /\ pc = "exit"
  /\ IF args.dryrun
     THEN /\ updates' = updates
          /\ pc' = "done"
     ELSE /\ updates' = [updates EXCEPT ![runs] = conn]
          /\ pc' = "publish"
  /\ UNCHANGED <<config, avail, fs, live, runs, args, filenameList, idx, conn,
                 exc, log, pre, submitted, errIdx, last, prev, refreshed, other>>

\* Commit that removes the temporary file when an exception is in flight.
Commit_unlinkTemp ==
  /\ pc = "exit"
  /\ IF args.dryrun
     THEN /\ updates' = updates
          /\ pc' = "done"
     ELSE /\ updates' = [updates EXCEPT ![runs] = IF exc = "none" THEN conn ELSE NoFile]
          /\ pc' = IF exc = "none" THEN "publish" ELSE "failed"
  /\ UNCHANGED <<config, avail, fs, live, runs, args, filenameList, idx, conn,
                 exc, log, pre, submitted, errIdx, last, prev, refreshed, other>>

\* Leaving the scope: fakeContext does nothing; RegistryContext.__exit__
\* commits and closes, and goes on to publish if no exception is in flight.
Commit ==
  /\ pc = "exit"
  /\ IF args.dryrun
     THEN /\ updates' = updates
          /\ pc' = "done"
     ELSE /\ updates' = [updates EXCEPT ![runs] = conn]
          /\ pc' = IF exc = "none" THEN "publish" ELSE "failed"
  /\ UNCHANGED <<config, avail, fs, live, runs, args, filenameList, idx, conn,
                 exc, log, pre, submitted, errIdx, last, prev, refreshed, other>>

\* __exit__: assertCanCopy, then os.unlink of an existing live registry.
Unlink ==
  /\ pc = "publish"
  /\ IF ~assertCanCopy(st_size(updates[runs]))
     THEN /\ exc' = "publish"
          /\ pc' = "failed"
          /\ live' = live
     ELSE /\ exc' = exc
          /\ pc' = "rename"
          /\ live' = IF live.exists THEN NoFile ELSE live
  /\ UNCHANGED <<config, avail, fs, updates, runs, args, filenameList, idx, conn,
                 log, pre, submitted, errIdx, last, prev, refreshed, other>>

\* A rename that does not replace a file already at the live path.
Rename_keepsExisting ==
  /\ pc = "rename"
  /\ live' = IF live.exists THEN live ELSE updates[runs]
  /\ updates' = [updates EXCEPT ![runs] = NoFile]
  /\ pc' = "chmod"
  /\ UNCHANGED <<config, avail, fs, runs, args, filenameList, idx, conn, exc,
                 log, pre, submitted, errIdx, last, prev, refreshed, other>>

\* __exit__: os.rename of the working copy to the live path.
Rename ==
  /\ pc = "rename"
  /\ live' = updates[runs]
  /\ updates' = [updates EXCEPT ![runs] = NoFile]
  /\ pc' = "chmod"
  /\ UNCHANGED <<config, avail, fs, runs, args, filenameList, idx, conn, exc,
                 log, pre, submitted, errIdx, last, prev, refreshed, other>>

\* __exit__: os.chmod of the live path.
Chmod ==
  /\ pc = "chmod"
  /\ IF live.exists
     THEN /\ live' = [live EXCEPT !.mode = "permissions"]
          /\ exc' = exc
          /\ pc' = "done"
     \* FileNotFoundError: another process has unlinked the live path
     ELSE /\ live' = live
          /\ exc' = "publish"
          /\ pc' = "failed"
  /\ UNCHANGED <<config, avail, fs, updates, runs, args, filenameList, idx, conn,
                 log, pre, submitted, errIdx, last, prev, refreshed, other>>

Next ==
  \/ Start
  \/ Rerun
  \/ ProcessFile
  \/ AddVisits
  \/ Commit
  \/ Unlink
  \/ Rename
  \/ Chmod

Spec == Init /\ [][Next]_vars

\* The runs over a live registry that holds one table only.
SpecPartial == InitPartial /\ [][Next]_vars

\* ------------------------------------------------------ two processes
\* The command lines of the overlapping runs: one pattern, no dry run, no
\* exclusions, files linked or moved.
OverlapArgs ==
  {a \in ArgSpace : /\ Len(a.files) = 1
                    /\ ~a.dryrun
                    /\ ~a.ignoreIngested
                    /\ a.badFile = <<>>
                    /\ a.mode \in {"link", "move"}}

\* The first process starts its run.
StartOverlap ==
  /\ pc = "idle"
  /\ \E a \in OverlapArgs : Begin(a)

\* The second process starts its run once the first has started: expandFiles
\* and openRegistry on the live path as it is now.
OtherStart ==
  /\ pc # "idle"
  /\ other.pc = "idle"
  /\ \E a \in OverlapArgs :
       LET context == RegistryContextInit(live, a.create)
       IN other' = [other EXCEPT
                      !.pc = IF context.raised THEN "failed" ELSE "files",
                      !.args = a,
                      !.filenameList = expandFiles(a.files, fs.inputs),
                      !.log = expandWarnings(a.files, fs.inputs),
                      !.conn = context.conn,
                      !.update = context.update,
                      !.exc = IF context.raised THEN "open" ELSE "none",
                      !.overlap = pc \in {"files", "exit", "publish"}]
  /\ UNCHANGED <<config, avail, fs, live, updates, pc, runs, args, filenameList,
                 idx, conn, exc, log, pre, submitted, errIdx, last, prev, refreshed>>

\* One iteration of the second process's loop over its filenameList.
OtherProcessFile ==
  /\ other.pc = "files"
  /\ other.idx < Len(other.filenameList)
  /\ LET infile == other.filenameList[other.idx + 1]
         r == runFile(infile, other.conn, other.args, fs)
         rows == addRows(other.conn, r.ret, other.args.dryrun)
         skipped == r.raised \/ r.none
     IN /\ fs' = r.fs
        /\ other' = [other EXCEPT
                       !.idx = @ + 1,
                       !.log = @ \cup r.warn \cup
                                 (IF r.raised
                                  THEN {[msg |-> "Failed to ingest file", file |-> infile]}
                                  ELSE {}),
                       !.conn = IF skipped THEN @ ELSE rows.conn,
                       !.submitted = IF skipped THEN @ ELSE @ \o rows.passed,
                       !.exc = IF ~skipped /\ rows.raised THEN "addRow" ELSE @,
                       !.pc = IF ~skipped /\ rows.raised THEN "exit" ELSE @]
  /\ UNCHANGED <<config, avail, live, updates, pc, runs, args, filenameList, idx,
                 conn, exc, log, pre, submitted, errIdx, last, prev, refreshed>>

\* The second process's visit refresh.
OtherAddVisits ==
  /\ other.pc = "files"
  /\ other.idx = Len(other.filenameList)
  /\ LET r == addVisits(other.conn, other.args.dryrun)
     IN other' = [other EXCEPT !.conn = r.conn,
                               !.exc = IF r.raised THEN "addVisits" ELSE @,
                               !.pc = "exit"]
  /\ UNCHANGED <<config, avail, fs, live, updates, pc, runs, args, filenameList,
                 idx, conn, exc, log, pre, submitted, errIdx, last, prev, refreshed>>

\* The second process leaves the scope: __exit__ commits and closes.
OtherCommit ==
  /\ other.pc = "exit"
  /\ other' = [other EXCEPT !.update = other.conn,
                            !.pc = IF other.exc = "none" THEN "publish" ELSE "failed"]
  /\ UNCHANGED <<config, avail, fs, live, updates, pc, runs, args, filenameList,
                 idx, conn, exc, log, pre, submitted, errIdx, last, prev, refreshed>>

\* The second process's __exit__: assertCanCopy, then os.path.exists.
OtherExists ==
  /\ other.pc = "publish"
  /\ other' = IF ~assertCanCopy(st_size(other.update))
              THEN [other EXCEPT !.exc = "publish", !.pc = "failed"]
              ELSE [other EXCEPT !.pc = IF live.exists THEN "unlink" ELSE "rename"]
  /\ UNCHANGED <<config, avail, fs, live, updates, pc, runs, args, filenameList,
                 idx, conn, exc, log, pre, submitted, errIdx, last, prev, refreshed>>

\* The second process's __exit__: os.unlink, which raises FileNotFoundError
\* if the first process has unlinked the live path since os.path.exists.
OtherUnlink ==
  /\ other.pc = "unlink"
  /\ IF live.exists
     THEN /\ live' = NoFile
          /\ other' = [other EXCEPT !.pc = "rename"]
     ELSE /\ live' = live
          /\ other' = [other EXCEPT !.exc = "publish", !.pc = "failed"]
  /\ UNCHANGED <<config, avail, fs, updates, pc, runs, args, filenameList, idx,
                 conn, exc, log, pre, submitted, errIdx, last, prev, refreshed>>

\* The second process's __exit__: os.rename, which replaces whatever is at
\* the live path.
OtherRename ==
  /\ other.pc = "rename"
  /\ live' = other.update
  /\ other' = [other EXCEPT !.update = NoFile,
                            !.renamedLast = pc \in {"chmod", "done"},
                            !.pc = "chmod"]
  /\ UNCHANGED <<config, avail, fs, updates, pc, runs, args, filenameList, idx,
                 conn, exc, log, pre, submitted, errIdx, last, prev, refreshed>>

\* The second process's __exit__: os.chmod of the live path.
OtherChmod ==
  /\ other.pc = "chmod"
  /\ IF live.exists
     THEN /\ live' = [live EXCEPT !.mode = "permissions"]
          /\ other' = [other EXCEPT !.pc = "done"]
     ELSE /\ live' = live
          /\ other' = [other EXCEPT !.exc = "publish", !.pc = "failed"]
  /\ UNCHANGED <<config, avail, fs, updates, pc, runs, args, filenameList, idx,
                 conn, exc, log, pre, submitted, errIdx, last, prev, refreshed>>

NextOverlap ==
  \/ StartOverlap
  \/ ProcessFile
  \/ AddVisits
  \/ Commit
  \/ Unlink
  \/ Rename
  \/ Chmod
  \/ OtherStart
  \/ OtherProcessFile
  \/ OtherAddVisits
  \/ OtherCommit
  \/ OtherExists
  \/ OtherUnlink
  \/ OtherRename
  \/ OtherChmod

\* Two runs on the same registry, in two processes.
SpecOverlap == Init /\ [][NextOverlap]_vars

\* ------------------------------------------------------ properties
RunEnded == pc \in {"done", "failed"}

\* The rows of a table without the synthetic id column.
Content(table) == [i \in 1..Len(table) |-> Project(table[i], ConfigColumns)]

\* No two rows of the table agree on the unique columns.
NoDuplicates(table) ==
  \A i, j \in 1..Len(table) :
    Project(table[i], ConfigUnique) = Project(table[j], ConfigUnique) => i = j

\* C1: a run over an existing live registry that ends with an error raised
\* before publish (the open failed, or addRow or addVisits raised out of the
\* open-registry scope) leaves the live registry exactly as it was.
C1_FailedRunKeepsRegistry ==
  (RunEnded /\ pre.exists /\ exc \in {"open", "addRow", "addVisits"}) => live = pre

\* C1 witness: addRow raised after this run had already inserted a row into
\* the working copy of an existing registry.
C1_Witness ==
  /\ pc = "failed"
  /\ exc = "addRow"
  /\ pre.exists
  /\ Len(updates[runs].file) > Len(pre.file)

\* C2: at every step of a run the live path holds either the complete
\* pre-run registry or the complete post-run registry, never nothing.
C2_LiveIsOldOrNew ==
  pc # "idle" => (live = pre \/ live = conn)

\* C3 as stated: after a successful run the file table holds every row the
\* live registry had before the run, followed by exactly one row per property
\* mapping that survived runFile, whatever the flags.
C3_AllRowsKept ==
  (pc = "done" /\ ~args.dryrun) =>
    Content(live.file) = Content(pre.file) \o submitted

\* Insert-if-absent of each mapping in turn, on the unique columns.
RECURSIVE AppendAbsent(_, _)
AppendAbsent(base, infos) ==
  IF infos = <<>> THEN base
  ELSE IF \E i \in 1..Len(base) :
            Project(base[i], ConfigUnique) = Project(Head(infos), ConfigUnique)
       THEN AppendAbsent(base, Tail(infos))
       ELSE AppendAbsent(Append(base, Head(infos)), Tail(infos))

\* C3 amended: after a successful run without dry-run the file table holds
\* the rows the live registry had before the run (none of them when create
\* is requested), followed by one row per property mapping that survived
\* runFile; with duplicate-tolerance configured a mapping whose unique tuple
\* is already in the table adds no row.
C3_RowsAfterRun ==
  (pc = "done" /\ ~args.dryrun) =>
    LET base == IF args.create THEN <<>> ELSE Content(pre.file)
    IN Content(live.file) =
         IF config.ignore THEN AppendAbsent(base, submitted)
         ELSE base \o submitted

\* C3 witness: a successful run without create added a row for every
\* surviving mapping to a registry that already held rows.
C3_Witness ==
  /\ pc = "done"
  /\ ~args.dryrun
  /\ ~args.create
  /\ Len(pre.file) > 0
  /\ Len(submitted) > 1
  /\ Len(live.file) = Len(pre.file) + Len(submitted)

\* C4: once addVisits has run, every visit key present in the file table
\* has exactly one row in the visit table.
C4_VisitComplete ==
  (pc = "exit" /\ ~args.dryrun /\ exc \in {"none", "addVisits"}) =>
    \A i \in 1..Len(conn.file) :
      Cardinality({j \in 1..Len(conn.visit) :
                     conn.visit[j].visit = conn.file[i].visit}) = 1

\* The rows of old are still there, in place, in new.
KeepsRows(old, new) ==
  /\ Len(old) <= Len(new)
  /\ \A i \in 1..Len(old) : new[i] = old[i]

C6_DryRunChangesNothing ==
  [][(args'.dryrun /\ pc' # "idle") =>
       /\ fs' = fs
       /\ live' = live
       /\ updates' = updates
       /\ conn' = NoFile
       /\ exc' = "none"
       /\ pc' # "failed"]_vars

\* C6 witness: a dry run with create and mode move over an existing registry
\* ended after passing a mapping to addRow.
C6_Witness ==
  /\ pc = "done"
  /\ args.dryrun
  /\ args.create
  /\ args.mode = "move"
  /\ pre.exists
  /\ Len(submitted) > 0

\* C7: in strict mode the first extraction or transport error ends the run:
\* no later file is processed and nothing is published.
C7_StrictAborts ==
  (~config.allowError /\ errIdx > 0) =>
    (idx = errIdx /\ pc \notin {"publish", "rename", "chmod", "done"})

\* expandFiles as C8 describes it: a pattern matching no file stays in the list.
RECURSIVE KeepUnmatched(_, _)
KeepUnmatched(fileNameList, present) ==
  IF fileNameList = <<>> THEN <<>>
  ELSE LET files == glob(Head(fileNameList), present)
       IN (IF files = <<>> THEN <<Head(fileNameList)>> ELSE files)
            \o KeepUnmatched(Tail(fileNameList), present)

\* C8: the expanded list holds, for each pattern in order, its matches, or
\* the pattern itself when it matches nothing.
C8_ExpandKeepsUnmatched ==
  (pc = "files" /\ idx = 0) => filenameList = KeepUnmatched(args.files, fs.inputs)

\* The next file of the loop reaches IngestTask.ingest with mode move, no
\* clobber, and its destination already in the repository.
MoveOntoExisting ==
  /\ pc = "files"
  /\ idx < Len(filenameList)
  /\ ~args.dryrun
  /\ args.mode = "move"
  /\ ~config.clobber
  /\ runFile(filenameList[idx + 1], conn, args, fs).stage \in {"transport", "ok"}
  /\ fs.repo[getDestination(Header(filenameList[idx + 1]))].kind # "none"

\* C9: such a move fails with a warning, and leaves the source file, the
\* repository and the file table as they were, with or without allowError.
C9_MoveOntoExistingFails ==
  [][MoveOntoExisting =>
       /\ last'.stage = "transport"
       /\ [msg |-> "Failed to transport", file |-> filenameList[idx + 1]] \in log'
       /\ fs'.inputs = fs.inputs
       /\ fs'.repo = fs.repo
       /\ conn' = conn
       /\ submitted' = submitted]_vars

\* C9 witness: a move failed on a destination that holds another file, and
\* the source file is still in place.
C9_Witness ==
  /\ last.stage = "transport"
  /\ pc = "files"
  /\ ~args.dryrun
  /\ args.mode = "move"
  /\ ~config.clobber
  /\ last.file \in fs.inputs
  /\ Readable(last.file)
  /\ fs.repo[getDestination(Header(last.file))].kind = "file"
  /\ fs.repo[getDestination(Header(last.file))].of # last.file

\* C10: when the live registry exists and the volume has fewer free blocks
\* than the registry takes, the open fails before any table exists in the
\* working copy, and the live registry stays as it was.
C10_NoSpaceFailsOpen ==
  (pc # "idle" /\ ~args.dryrun /\ pre.exists /\ avail < st_size(pre)) =>
    /\ pc = "failed"
    /\ exc = "open"
    /\ live = pre
    /\ conn = NoFile
    /\ updates[runs].tables = {}

\* C10 witness: an open with create failed for lack of space on a registry
\* that holds rows.
C10_Witness ==
  /\ pc = "failed"
  /\ exc = "open"
  /\ args.create
  /\ Len(pre.file) > 0
  /\ avail < st_size(pre)

\* The step passes one property mapping to addRow.
AddsRow == Len(submitted') = Len(submitted) + 1

\* C11: with duplicate-tolerance configured, addRow of a mapping whose unique
\* tuple is already in the file table leaves the table as it was and raises
\* nothing; addRow of a mapping with a new unique tuple appends exactly one
\* row, holding the mapping.
C11_InsertIfAbsent ==
  [][(config.ignore /\ ~args'.dryrun /\ AddsRow) =>
       LET info == submitted'[Len(submitted')]
       IN /\ exc' = "none"
          /\ IF \E i \in 1..Len(conn.file) :
                  Project(conn.file[i], ConfigUnique) = Project(info, ConfigUnique)
             THEN conn'.file = conn.file
             ELSE /\ KeepsRows(conn.file, conn'.file)
                  /\ Content(conn'.file) = Content(conn.file) \o <<info>>]_vars

\* C11 witness: with duplicate-tolerance, a registry holding {visit 100,
\* ccd 1} was given {visit 100, ccd 1} again and then {visit 100, ccd 2}, and
\* was published with two file rows and one visit row.
C11_Witness ==
  /\ pc = "done"
  /\ config.ignore
  /\ ~args.dryrun
  /\ Content(pre.file) = <<Header("a")>>
  /\ submitted = <<Header("a"), Header("b")>>
  /\ Content(live.file) = <<Header("a"), Header("b")>>
  /\ Len(live.visit) = 1

\* C12: opening an existing registry with create not requested keeps every
\* table and row it had and leaves the working copy with both the file table
\* and the visit table.
C12_OpenAugments ==
  (pc = "files" /\ idx = 0 /\ ~args.dryrun /\ ~args.create /\ pre.exists) =>
    /\ conn.tables = {TableName, VisitTableName}
    /\ conn.file = pre.file
    /\ conn.visit = pre.visit

\* The next file of the loop gets past the exclusions and the extraction, the
\* registry already holds a row for its unique tuple, and ignore-ingested is
\* not requested.
AlreadyIngested ==
  /\ pc = "files"
  /\ idx < Len(filenameList)
  /\ ~args.dryrun
  /\ ~args.ignoreIngested
  /\ runFile(filenameList[idx + 1], conn, args, fs).stage \in {"transport", "ok"}
  /\ check(conn, Header(filenameList[idx + 1]))

\* C13: processing such a file logs the warning, passes its mapping to addRow
\* when the transport succeeded, and does not end the batch: the loop goes on
\* with no exception in flight.
C13_WarnAndProceed ==
  [][AlreadyIngested =>
       /\ [msg |-> "already ingested", file |-> filenameList[idx + 1]] \in log'
       /\ (last'.stage = "ok" => AddsRow)
       /\ pc' = "files"
       /\ exc' = "none"]_vars

\* C14: a run that reaches publish has called addVisits exactly once; the
\* call comes when every file of the batch has been processed, and no row is
\* passed to addRow after it.
C14_RefreshOnce ==
  /\ [](pc \in {"publish", "rename", "chmod", "done"} => refreshed = 1)
  /\ [][refreshed' > refreshed =>
          (idx = Len(filenameList) /\ idx' = idx /\ submitted' = submitted)]_vars
  /\ [][AddsRow => (refreshed = 0 /\ refreshed' = 0)]_vars

\* C14 witness: a run that inserted the rows of two files published a
\* registry with a new visit row after one refresh.
C14_Witness ==
  /\ pc = "done"
  /\ ~args.dryrun
  /\ Len(submitted) > 1
  /\ refreshed = 1
  /\ Len(live.visit) > Len(pre.visit)

\* C15: when addRow or addVisits raises out of the open-registry scope, the
\* run ends with its temporary file still on disk, holding what the
\* connection committed, and no step of the run changes the live path.
C15_FailedRunLeavesTemp ==
  /\ []((pc = "failed" /\ exc \in {"addRow", "addVisits"}) =>
          /\ updates[runs].exists
          /\ updates[runs] = conn
          /\ live = pre)
  /\ [][exc' \in {"addRow", "addVisits"} => live' = live]_vars

\* C15 witness: with no live registry, addVisits raised after the rows of two
\* files were inserted; the temporary file holds them and the live path is
\* still empty.
C15_Witness ==
  /\ pc = "failed"
  /\ exc = "addVisits"
  /\ ~pre.exists
  /\ ~live.exists
  /\ updates[runs].exists
  /\ Len(updates[runs].file) > 1

\* The next file of a dry run is one that the same command line without
\* dry-run, opening the live registry as it is, skips as already ingested.
RealRunSkips ==
  /\ pc = "files"
  /\ idx < Len(filenameList)
  /\ args.dryrun
  /\ ~args.create
  /\ live.exists
  /\ runFile(filenameList[idx + 1], live, [args EXCEPT !.dryrun = FALSE], fs).stage
       = "ingested"

\* C16: a dry run evaluates the registry existence check, so it skips such a
\* file as already ingested too.
C16_DryRunChecksRegistry ==
  [][RealRunSkips => last'.stage = "ingested"]_vars

\* The step is an iteration of the loop in which runFile reached its call of
\* check.
FileChecked ==
  /\ pc = "files"
  /\ idx' = idx + 1
  /\ ~args.dryrun
  /\ last'.stage \in {"ingested", "transport", "ok"}

\* The file table of db holds a row equal to info on every column of unique.
HoldsTuple(db, info, unique) ==
  \E i \in 1..Len(db.file) : \A c \in unique : db.file[i][c] = info[c]

\* C17: on every file table the loop of a run works on, for every record,
\* check is false when duplicate-tolerance is on or there are no unique
\* columns, and otherwise true exactly when a row equals the record on every
\* unique column; and runFile treats a file as already ingested exactly when
\* that is so.
C17_CheckResult ==
  /\ [](pc = "files" =>
          \A f \in {g \in Files : Readable(g)}, ig \in BOOLEAN,
             U \in {{}, ConfigUnique} :
            checkOn(conn, Header(f), ig, U) =
              (~ig /\ U # {} /\ HoldsTuple(conn, Header(f), U)))
  /\ [][FileChecked =>
          LET infile == filenameList[idx + 1]
              seen == IF args.ignoreIngested
                      THEN last'.stage = "ingested"
                      ELSE [msg |-> "already ingested", file |-> infile] \in log'
          IN seen <=> (~config.ignore /\ HoldsTuple(conn, Header(infile), ConfigUnique))]_vars

\* C17 witness: without duplicate-tolerance, check found the second file's
\* unique tuple in a table where another file of this run had put it, and
\* the file was skipped as already ingested.
C17_Witness ==
  /\ last.stage = "ingested"
  /\ ~config.ignore
  /\ ~HoldsTuple(pre, Header(last.file), ConfigUnique)
  /\ HoldsTuple(conn, Header(last.file), ConfigUnique)
  /\ Header(last.file) \notin {submitted[i] : i \in 1..Len(submitted)}

\* C18 as stated: the file table of the working copy carries the unique
\* constraint, and holds no two rows of the same unique tuple, when
\* duplicate-tolerance is not configured, and carries no unique constraint
\* when it is.
C18_ConstraintUnlessIgnore ==
  (pc # "idle" /\ TableName \in conn.tables) =>
    /\ ~config.ignore => (conn.unique = ConfigUnique /\ NoDuplicates(conn.file))
    /\ config.ignore => conn.unique = {}

\* C18 amended: the file table carries the unique constraint whether or not
\* duplicate-tolerance is configured; no registry state, working copy or
\* live, has two file rows of the same unique tuple; and without
\* duplicate-tolerance an insert of a tuple already present is rejected with
\* an error that leaves the table as it was.
C18_ConstraintAlways ==
  /\ [](TableName \in conn.tables =>
          (conn.unique = ConfigUnique /\ NoDuplicates(conn.file)))
  /\ [](NoDuplicates(live.file))
  /\ [][(~config.ignore /\ ~args'.dryrun /\ AddsRow
           /\ HoldsTuple(conn, submitted'[Len(submitted')], ConfigUnique)) =>
          (exc' = "addRow" /\ conn' = conn)]_vars

\* C18 witness: with duplicate-tolerance configured, a run published a file
\* table that carries the unique constraint, after an insert of a tuple
\* already present and an insert of a new one.
C18_Witness ==
  /\ pc = "done"
  /\ config.ignore
  /\ ~args.dryrun
  /\ live.unique = ConfigUnique
  /\ Len(submitted) = 2
  /\ Len(live.file) = Len(pre.file) + 1
  /\ Len(pre.file) > 0

\* Both processes have completed runs that overlapped: the second opened its
\* working copy before the first began to publish.
BothDone == pc = "done" /\ other.pc = "done" /\ other.overlap

\* The rows of the table, as a set.
RowSet(table) == {table[i] : i \in 1..Len(table)}

\* What the file table holds after the rows of infos are added to base.
WithRows(base, infos) ==
  IF config.ignore THEN AppendAbsent(base, infos) ELSE base \o infos

\* C19 as stated: after two overlapping runs that both completed, the live
\* registry is the working copy of the run that renamed last; its file table
\* holds the rows the live registry had before the runs plus the rows of that
\* run, and no row that only the other run inserted.
C19_LastPublisherWins ==
  BothDone =>
    LET lastRows == IF other.renamedLast THEN other.submitted ELSE submitted
    IN /\ live = (IF other.renamedLast THEN other.conn ELSE conn)
       /\ Content(live.file) = WithRows(Content(pre.file), lastRows)

\* C19 amended: after two overlapping runs that both completed, the live
\* registry is the working copy of the run that renamed last; its file table
\* holds the rows the live registry had before the runs (none of them when
\* that run requested create) plus the rows of that run, and no row that only
\* the other run inserted.
C19_LastWorkingCopyWins ==
  BothDone =>
    LET lastRows == IF other.renamedLast THEN other.submitted ELSE submitted
        firstRows == IF other.renamedLast THEN submitted ELSE other.submitted
        lastArgs == IF other.renamedLast THEN other.args ELSE args
        base == IF lastArgs.create THEN <<>> ELSE Content(pre.file)
    IN /\ live = (IF other.renamedLast THEN other.conn ELSE conn)
       /\ Content(live.file) = WithRows(base, lastRows)
       /\ \A r \in RowSet(firstRows) \ (RowSet(base) \cup RowSet(lastRows)) :
            r \notin RowSet(Content(live.file))

\* C19 witness: both runs completed on an existing registry, the first
\* process renamed last, and the row the second process inserted and
\* published is not in the live registry, which holds the earlier rows and
\* the first process's row.
C19_Witness ==
  /\ BothDone
  /\ ~other.renamedLast
  /\ ~args.create
  /\ Len(pre.file) > 0
  /\ Len(submitted) > 0
  /\ Len(other.submitted) > 0
  /\ Len(other.conn.file) > Len(pre.file)
  /\ Len(live.file) = Len(pre.file) + Len(submitted)
  /\ RowSet(other.submitted) \cap RowSet(Content(live.file)) = {}

\* The run has ended with an exception of addRow or addVisits, in a mode
\* that transports files.
Aborted ==
  /\ pc = "failed"
  /\ exc \in {"addRow", "addVisits"}
  /\ args.mode \in {"copy", "move", "link"}

\* The input file a property mapping was extracted from.
FileOf(info) == CHOOSE f \in Files : Readable(f) /\ Header(f) = info

\* The files this run transported are still in the repository (each
\* destination holds one of them), and the sources of a move are gone.
TransportStands ==
  \A i \in 1..Len(submitted) :
    /\ fs.repo[getDestination(submitted[i])].kind \in {"file", "link"}
    /\ fs.repo[getDestination(submitted[i])].of \in
         {FileOf(submitted[j]) : j \in 1..Len(submitted)}
    /\ args.mode = "move" => FileOf(submitted[i]) \notin fs.inputs

\* C20 as stated: after such a run the live registry is as it was before the
\* run and holds no row for any file the run transported, while the
\* transported files stay where the run put them.
C20_NoRollback ==
  Aborted =>
    /\ live = pre
    /\ \A i \in 1..Len(submitted) : ~HoldsTuple(live, submitted[i], ConfigUnique)
    /\ TransportStands

\* C20 amended: after such a run the live registry is as it was before the
\* run, so it holds a row for a transported file only if it held one before
\* the run; the transported files stay where the run put them, and no step
\* after the exception changes the data files.
C20_NoRollbackOfTransport ==
  /\ [](Aborted =>
          /\ live = pre
          /\ \A i \in 1..Len(submitted) :
               HoldsTuple(live, submitted[i], ConfigUnique) =>
                 HoldsTuple(pre, submitted[i], ConfigUnique)
          /\ TransportStands)
  /\ [][(exc \in {"addRow", "addVisits"} /\ exc' = exc) => fs' = fs]_vars

\* C20 witness: addRow raised on the second file of a move over an existing
\* registry; both files have been moved, the live registry has no row for
\* the first, and the working copy has.
C20_Witness ==
  /\ Aborted
  /\ exc = "addRow"
  /\ args.mode = "move"
  /\ pre.exists
  /\ Len(submitted) = 2
  /\ ~HoldsTuple(live, submitted[1], ConfigUnique)
  /\ HoldsTuple(updates[runs], submitted[1], ConfigUnique)
  /\ FileOf(submitted[1]) \notin fs.inputs
  /\ FileOf(submitted[2]) \notin fs.inputs
  /\ fs.repo[getDestination(submitted[1])].kind = "file"

====
